---- MODULE Spec2Model ----
(***************************************************************************)
(* Model of erbium's DNS out-query cache (src/dns/cache.rs) and of its     *)
(* DHCPv4 per-packet pipeline (src/dhcp/mod.rs).                           *)
(*                                                                         *)
(* Time is the monotonic clock read by Instant::now(), in seconds.         *)
(***************************************************************************)
EXTENDS Integers, Sequences, FiniteSets, TLC

(***************************************************************************)
(* Bounds of the model.                                                    *)
(***************************************************************************)
\* number of handle_query calls made on the CacheHandler
NumQueries == 2
\* number of datagrams received by the DHCP listener
NumPackets == 2

\* the instants at which the clock is observed
Instants == {0, 6, 30}

(***************************************************************************)
(* Program constants.                                                      *)
(***************************************************************************)
\* cache.rs:213  std::time::Duration::from_secs(8)
NegativeLifetime == 8
\* cache.rs:135  time::Duration::from_secs(1800)
MaxCycle == 1800
\* cache.rs:156  time::Duration::from_secs(30)
MinCycle == 30
\* cache.rs:110  `as u32`: the low 32 bits, computed on 16-bit halves
AsU32(n) == (n % 65536) + 65536 * ((n \div 65536) % 65536)

Queries == 1..NumQueries

\* dnspkt::CLASS_IN and one other class (CHAOS)
CLASS_IN == "IN"
CLASS_CH == "CH"
QClasses == {CLASS_IN, CLASS_CH}

\* CacheKey { qname, qtype }
CacheKey(qname, qtype) == [qname |-> qname, qtype |-> qtype]
CacheKeys == {CacheKey("example.com", "A"), CacheKey("example.com", "AAAA")}
\* the keys are interchangeable: the first call asks for this one
FirstKey == CacheKey("example.com", "A")

(***************************************************************************)
(* Result<DNSPkt, Error>.  A packet is reduced to the TTLs of its RRs; an  *)
(* error to its variant and its payload (an io::Error or a message).       *)
(***************************************************************************)
Ok(ttls) == [kind |-> "Ok", ttls |-> ttls, msg |-> ""]
Err(kind, msg) == [kind |-> kind, ttls |-> <<>>, msg |-> msg]
NoReply == [kind |-> "None", ttls |-> <<>>, msg |-> ""]

\* Display of a std::io::Error, as produced by format!("{}", io)
IoDisplay(io) == IF io = "ENETUNREACH" THEN "Network is unreachable" ELSE "Input/output error"

OkReplies == {Ok(<<0>>), Ok(<<70, 40>>)}
ErrReplies ==
    { Err("NotAuthoritative", ""),
      Err("Timeout", ""),
      Err("FailedToSend", "ENETUNREACH"),
      Err("FailedToSendMsg", "Network is unreachable"),
      Err("FailedToRecv", "ENETUNREACH"),
      Err("FailedToRecvMsg", "Network is unreachable"),
      Err("TcpConnectionError", "refused"),
      Err("ParseError", "short"),
      Err("InternalError", "oops") }
\* what OutQuery::handle_query can return
OutResults == OkReplies \cup ErrReplies

Min(a, b) == IF a < b THEN a ELSE b
Max(a, b) == IF a > b THEN a ELSE b

RECURSIVE SeqMin(_)
SeqMin(s) == IF Len(s) = 1 THEN s[1] ELSE Min(s[1], SeqMin(Tail(s)))

\* DNSPkt::get_expiry: the minimum TTL of the RRs of the reply
get_expiry(pkt) == IF Len(pkt.ttls) = 0 THEN 0 ELSE SeqMin(pkt.ttls)

\* DNSPkt::clone_with_ttl_decrement: every TTL reduced, saturating at zero
clone_with_ttl_decrement(pkt, dec) ==
    [pkt EXCEPT !.ttls = [i \in 1..Len(pkt.ttls) |-> Max(pkt.ttls[i] - dec, 0)]]

\* cache.rs:66-100
clone_out_reply(reply) ==
    CASE reply.kind = "FailedToSend" -> Err("FailedToSendMsg", IoDisplay(reply.msg))
      [] reply.kind = "FailedToRecv" -> Err("FailedToRecvMsg", IoDisplay(reply.msg))
      [] OTHER -> reply

\* clone_with_ttl_decrement_out_reply handing the stored reply back as it is
clone_out_reply_NoDecrement(reply, decrement) == clone_out_reply(reply)

\* cache.rs:105-113
clone_with_ttl_decrement_out_reply(reply, decrement) ==
    IF reply.kind = "Ok"
    THEN clone_with_ttl_decrement(reply, AsU32(decrement))
    ELSE clone_out_reply(reply)

\* cache.rs:208-212: the errors that get a negative entry
CachedErrorKinds ==
    {"Timeout", "FailedToSend", "FailedToRecv", "TcpConnectionError", "ParseError"}

\* IsCached with NotAuthoritative and InternalError taken for transport failures
IsCached_AnyError(out_result) ==
    out_result.kind = "Ok"
        \/ out_result.kind \in CachedErrorKinds \cup {"NotAuthoritative", "InternalError"}

\* cache.rs:203-217: TRUE when the result is inserted into the cache
IsCached(out_result) ==
    out_result.kind = "Ok" \/ out_result.kind \in CachedErrorKinds

\* Expiry with the cooldown of a failure taken from MinCycle
Expiry_LongCooldown(out_result) ==
    IF out_result.kind = "Ok" THEN get_expiry(out_result) ELSE MinCycle

\* cache.rs:203-214: the lifetime of the entry
Expiry(out_result) ==
    IF out_result.kind = "Ok" THEN get_expiry(out_result) ELSE NegativeLifetime

\* CacheValue { reply, birth, lifetime }
CacheValue(reply, birth, lifetime) ==
    [reply |-> reply, birth |-> birth, lifetime |-> lifetime]

Deadline(v) == v.birth + v.lifetime

\* IsFresh with the deadline itself still served
IsFresh_Inclusive(entry, t) == entry.birth + entry.lifetime >= t

\* cache.rs:186  entry.birth + entry.lifetime > now
IsFresh(entry, t) == Deadline(entry) > t

\* cache.rs:146  the predicate handed to HashMap::retain (TRUE = keep)
RetainPred(v, t) == Deadline(v) < t

\* HashMap::retain
Retain(c, t) == [k \in {kk \in DOMAIN c : RetainPred(c[kk], t)} |-> c[k]]

\* MapInsert that leaves an entry already present as it is
MapInsert_KeepFirst(c, k, v) ==
    [kk \in (DOMAIN c) \cup {k} |-> IF kk \in DOMAIN c THEN c[kk] ELSE v]

\* HashMap::insert
MapInsert(c, k, v) == [kk \in (DOMAIN c) \cup {k} |-> IF kk = k THEN v ELSE c[kk]]

RECURSIVE SetMin(_)
SetMin(S) ==
    LET x == CHOOSE y \in S : TRUE
    IN  IF S = {x} THEN x ELSE Min(x, SetMin(S \ {x}))

\* cache.rs:144-145: next_cycle after the closure has seen every entry
ReduceCycle(next, c) ==
    IF DOMAIN c = {} THEN next
    ELSE Min(next, SetMin({Deadline(c[k]) : k \in DOMAIN c}))

VARIABLES
    now,        \* the monotonic clock
    cache,      \* CacheHandler.cache: the HashMap behind the RwLock
    readers,    \* the queries holding a read guard of the RwLock
    writer,     \* the holder of the write guard of the RwLock
    gauge,      \* DNS_CACHE_SIZE
    counters,   \* DNS_CACHE, by label
    qpc,        \* position of each handle_query call
    qmsg,       \* its question: [key, qclass]
    qout,       \* its out_result
    qret,       \* what it returned
    qhit,       \* TRUE when it returned from the cache
    qbefore,    \* the calls that had returned when it was made
    qup,        \* the time at which OutQuery returned to it
    epc,        \* position of the expiry task
    next_cycle  \* the expiry task's next_cycle

dnsvars == <<now, cache, readers, writer, gauge, counters, qpc, qmsg, qout, qret,
             qhit, qbefore, qup, epc, next_cycle>>


VARIABLES
    pool_owner,  \* the task holding the guard of the Pools mutex
    ids_owner,   \* the task holding a guard of the ServerIds mutex
    serverids,   \* the shared ServerIds set
    dpc,         \* position of each recvdhcp task
    dbuf,        \* its datagram
    dfrom,       \* the address it came from
    dsnap,       \* the clone of ServerIds handed to handle_pkt
    dres,        \* the result of handle_pkt
    dalloc,      \* TRUE when allocate_address was called for the packet
    sent         \* the replies handed to the raw socket

dhcpvars == <<pool_owner, ids_owner, serverids, dpc, dbuf, dfrom, dsnap, dres, dalloc, sent>>

vars == <<dnsvars, dhcpvars>>

NoTime == 0 - 1

\* holders of the write guard
NoHolder == << >>
ExpireHolder == <<"expire">>
QueryHolder(q) == <<"query", q>>

NoMsg == [key |-> CacheKey("", ""), qclass |-> ""]

InitDns ==
    /\ now = 0
    /\ cache = << >>
    /\ readers = {}
    /\ writer = NoHolder
    /\ gauge = 0
    /\ counters = [l \in {"HIT", "MISS", "EXPIRED", "UNCACHABLE_CLASS"} |-> 0]
    /\ qpc = [q \in Queries |-> "idle"]
    /\ qmsg = [q \in Queries |-> NoMsg]
    /\ qout = [q \in Queries |-> NoReply]
    /\ qret = [q \in Queries |-> NoReply]
    /\ qhit = [q \in Queries |-> FALSE]
    /\ qbefore = [q \in Queries |-> {}]
    /\ qup = [q \in Queries |-> NoTime]
    /\ epc = "start"
    /\ next_cycle = 0

Inc(label) == [counters EXCEPT ![label] = @ + 1]

\* Instant::now() advances
Tick(t) ==
    /\ t > now
    /\ now' = t
    /\ UNCHANGED <<cache, readers, writer, gauge, counters, qpc, qmsg, qout, qret,
                   qhit, qbefore, qup, epc, next_cycle>>
    /\ UNCHANGED dhcpvars

(***************************************************************************)
(* CacheHandler::handle_query, cache.rs:168-236.  Calls are numbered in    *)
(* the order in which they are made.                                       *)
(***************************************************************************)
\* IsCachableClass with the class of the question ignored
IsCachableClass_Any(qclass) == TRUE

\* cache.rs:172  q.qclass != dnspkt::CLASS_IN is the bypass
IsCachableClass(qclass) == qclass = CLASS_IN

\* cache.rs:168-181: the call, the class check and the key
QueryStart(q, key, qclass) ==
    /\ qpc[q] = "idle"
    /\ \A p \in Queries : p < q => qpc[p] # "idle"
    /\ q = 1 => key = FirstKey
    /\ qmsg' = [qmsg EXCEPT ![q] = [key |-> key, qclass |-> qclass]]
    /\ qbefore' = [qbefore EXCEPT ![q] = {p \in Queries : qpc[p] = "done"}]
    /\ IF ~IsCachableClass(qclass)
       THEN /\ counters' = Inc("UNCACHABLE_CLASS")
            /\ qpc' = [qpc EXCEPT ![q] = "bypass"]
       ELSE /\ counters' = counters
            /\ qpc' = [qpc EXCEPT ![q] = "rdlock"]
    /\ UNCHANGED <<now, cache, readers, writer, gauge, qout, qret, qhit, qup,
                   epc, next_cycle>>
    /\ UNCHANGED dhcpvars

\* cache.rs:175: a non-IN query is answered by OutQuery
QueryBypass(q, r) ==
    /\ qpc[q] = "bypass"
    /\ qout' = [qout EXCEPT ![q] = r]
    /\ qret' = [qret EXCEPT ![q] = r]
    /\ qpc' = [qpc EXCEPT ![q] = "done"]
    /\ UNCHANGED <<now, cache, readers, writer, gauge, counters, qmsg, qhit, qbefore,
                   qup, epc, next_cycle>>
    /\ UNCHANGED dhcpvars

\* cache.rs:184: self.cache.read().await
QueryReadLock(q) ==
    /\ qpc[q] = "rdlock"
    /\ writer = NoHolder
    /\ readers' = readers \cup {q}
    /\ qpc' = [qpc EXCEPT ![q] = "lookup"]
    /\ UNCHANGED <<now, cache, writer, gauge, counters, qmsg, qout, qret, qhit, qbefore,
                   qup, epc, next_cycle>>
    /\ UNCHANGED dhcpvars

\* ReadersAfterLookup for a read guard that outlives the if-let
ReadersAfterLookup_Held(q) == readers

\* cache.rs:184-198: the read guard is a temporary of the if-let: it is dropped
\* at the end of the if-let, and by the return of the hit
ReadersAfterLookup(q) == readers \ {q}

\* cache.rs:184-198: the lookup under the read guard, which is dropped at the
\* end of the if-let
QueryLookup(q) ==
    /\ qpc[q] = "lookup"
    /\ readers' = ReadersAfterLookup(q)
    /\ LET ck == qmsg[q].key IN
       IF ck \in DOMAIN cache
       THEN IF IsFresh(cache[ck], now)
            THEN /\ counters' = Inc("HIT")
                 /\ qret' = [qret EXCEPT ![q] =
                        clone_with_ttl_decrement_out_reply(cache[ck].reply,
                                                           now - cache[ck].birth)]
                 /\ qhit' = [qhit EXCEPT ![q] = TRUE]
                 /\ qpc' = [qpc EXCEPT ![q] = "done"]
            ELSE /\ counters' = Inc("EXPIRED")
                 /\ qpc' = [qpc EXCEPT ![q] = "upstream"]
                 /\ UNCHANGED <<qret, qhit>>
       ELSE /\ counters' = Inc("MISS")
            /\ qpc' = [qpc EXCEPT ![q] = "upstream"]
            /\ UNCHANGED <<qret, qhit>>
    /\ UNCHANGED <<now, cache, writer, gauge, qmsg, qout, qbefore, qup,
                   epc, next_cycle>>
    /\ UNCHANGED dhcpvars

\* cache.rs:201-217: OutQuery returns r; an error that is not cached is returned
QueryUpstream(q, r) ==
    /\ qpc[q] = "upstream"
    /\ qout' = [qout EXCEPT ![q] = r]
    /\ qup' = [qup EXCEPT ![q] = now]
    /\ IF IsCached(r)
       THEN /\ qpc' = [qpc EXCEPT ![q] = "wrlock"]
            /\ qret' = qret
       ELSE /\ qpc' = [qpc EXCEPT ![q] = "done"]
            /\ qret' = [qret EXCEPT ![q] = clone_out_reply(r)]
    /\ UNCHANGED <<now, cache, readers, writer, gauge, counters, qmsg, qhit, qbefore,
                   epc, next_cycle>>
    /\ UNCHANGED dhcpvars

\* cache.rs:219: self.cache.write().await
QueryWriteLock(q) ==
    /\ qpc[q] = "wrlock"
    /\ writer = NoHolder
    /\ readers = {}
    /\ writer' = QueryHolder(q)
    /\ qpc' = [qpc EXCEPT ![q] = "insert"]
    /\ UNCHANGED <<now, cache, readers, gauge, counters, qmsg, qout, qret, qhit, qbefore,
                   qup, epc, next_cycle>>
    /\ UNCHANGED dhcpvars

\* cache.rs:219-226: the insert, after which the write guard is dropped
QueryInsert(q) ==
    /\ qpc[q] = "insert"
    /\ cache' = MapInsert(cache, qmsg[q].key,
                          CacheValue(clone_out_reply(qout[q]), now, Expiry(qout[q])))
    /\ writer' = NoHolder
    /\ qpc' = [qpc EXCEPT ![q] = "gauge"]
    /\ UNCHANGED <<now, readers, gauge, counters, qmsg, qout, qret, qhit, qbefore, qup,
                   epc, next_cycle>>
    /\ UNCHANGED dhcpvars

\* cache.rs:228-235: the gauge is set from the length read under a read guard,
\* and out_result is returned
QueryGauge(q) ==
    /\ qpc[q] = "gauge"
    /\ writer = NoHolder
    /\ gauge' = Cardinality(DOMAIN cache)
    /\ qret' = [qret EXCEPT ![q] = qout[q]]
    /\ qpc' = [qpc EXCEPT ![q] = "done"]
    /\ UNCHANGED <<now, cache, readers, writer, counters, qmsg, qout, qhit, qbefore, qup,
                   epc, next_cycle>>
    /\ UNCHANGED dhcpvars

(***************************************************************************)
(* CacheHandler::expire, cache.rs:128-166.                                 *)
(***************************************************************************)
\* cache.rs:135
ExpireStart ==
    /\ epc = "start"
    /\ next_cycle' = now + MaxCycle
    /\ epc' = "wrlock"
    /\ UNCHANGED <<now, cache, readers, writer, gauge, counters, qpc, qmsg, qout, qret,
                   qhit, qbefore, qup>>
    /\ UNCHANGED dhcpvars

\* cache.rs:139
ExpireWriteLock ==
    /\ epc = "wrlock"
    /\ writer = NoHolder
    /\ readers = {}
    /\ writer' = ExpireHolder
    /\ epc' = "sweep"
    /\ UNCHANGED <<now, cache, readers, gauge, counters, qpc, qmsg, qout, qret,
                   qhit, qbefore, qup, next_cycle>>
    /\ UNCHANGED dhcpvars

\* cache.rs:142-148: the sweep, after which the write guard is dropped
ExpireSweep ==
    /\ epc = "sweep"
    /\ next_cycle' = ReduceCycle(next_cycle, cache)
    /\ cache' = Retain(cache, now)
    /\ writer' = NoHolder
    /\ epc' = "clamp"
    /\ UNCHANGED <<now, readers, gauge, counters, qpc, qmsg, qout, qret,
                   qhit, qbefore, qup>>
    /\ UNCHANGED dhcpvars

\* cache.rs:154-157
ExpireClamp ==
    /\ epc = "clamp"
    /\ next_cycle' = Max(next_cycle, now + MinCycle)
    /\ epc' = "sleep"
    /\ UNCHANGED <<now, cache, readers, writer, gauge, counters, qpc, qmsg, qout, qret,
                   qhit, qbefore, qup>>
    /\ UNCHANGED dhcpvars

\* cache.rs:164: sleep_until(next_cycle) returns
ExpireWake ==
    /\ epc = "sleep"
    /\ now >= next_cycle
    /\ epc' = "start"
    /\ UNCHANGED <<now, cache, readers, writer, gauge, counters, qpc, qmsg, qout, qret,
                   qhit, qbefore, qup, next_cycle>>
    /\ UNCHANGED dhcpvars

NextDns ==
    \/ \E t \in Instants : Tick(t)
    \/ \E q \in Queries, key \in CacheKeys, qclass \in QClasses : QueryStart(q, key, qclass)
    \/ \E q \in Queries, r \in OutResults : QueryBypass(q, r)
    \/ \E q \in Queries : QueryReadLock(q)
    \/ \E q \in Queries : QueryLookup(q)
    \/ \E q \in Queries, r \in OutResults : QueryUpstream(q, r)
    \/ \E q \in Queries : QueryWriteLock(q)
    \/ \E q \in Queries : QueryInsert(q)
    \/ \E q \in Queries : QueryGauge(q)
    \/ ExpireStart
    \/ ExpireWriteLock
    \/ ExpireSweep
    \/ ExpireClamp
    \/ ExpireWake

(***************************************************************************)
(* DHCP: src/dhcp/mod.rs.                                                  *)
(***************************************************************************)
Packets == 1..NumPackets

\* Option<T>
None == << >>
Some(x) == <<x>>

\* net::SocketAddr
V4(ip) == [v4 |-> TRUE, ip |-> ip]
V6(ip) == [v4 |-> FALSE, ip |-> ip]
Froms == {V4("192.0.2.1"), V6("2001:db8::1")}

\* dhcppkt constants
OP_BOOTREPLY == 2
HWTYPE_ETHERNET == 1
DHCPDISCOVER == "DISCOVER"
DHCPOFFER == "OFFER"
DHCPREQUEST == "REQUEST"
DHCPACK == "ACK"
DHCPRELEASE == "RELEASE"
UNSPECIFIED == "0.0.0.0"

\* the fixed fields of the requests that arrive
Headers ==
    { [xid |-> 1, flags |-> 32768, ciaddr |-> "0.0.0.0", giaddr |-> "0.0.0.0",
       chaddr |-> "02:00:00:00:00:01", hostname |-> None, clientidentifier |-> None],
      [xid |-> 2, flags |-> 0, ciaddr |-> "192.0.2.50", giaddr |-> "192.0.2.254",
       chaddr |-> "02:00:00:00:00:02", hostname |-> Some("host"),
       clientidentifier |-> Some("id")] }

\* dhcppkt::DHCP as parsed from a request
Request(h, mt, si) ==
    [xid |-> h.xid, flags |-> h.flags, ciaddr |-> h.ciaddr, giaddr |-> h.giaddr,
     chaddr |-> h.chaddr,
     options |-> [messagetype |-> mt, hostname |-> h.hostname,
                  serveridentifier |-> si, clientidentifier |-> h.clientidentifier]]

Requests ==
    { Request(h, mt, si) : h \in Headers,
                           mt \in {DHCPDISCOVER, DHCPREQUEST, DHCPRELEASE},
                           si \in {None, Some("192.0.2.1"), Some("198.51.100.9")} }

NoRequest == Request([xid |-> 0, flags |-> 0, ciaddr |-> "", giaddr |-> "", chaddr |-> "",
                      hostname |-> None, clientidentifier |-> None], "", None)

\* a datagram: the wire form of a request, or bytes that do not parse
Datagram(req) == [wellformed |-> TRUE, req |-> req]
Garbage == [wellformed |-> FALSE, req |-> NoRequest]
Buffers == {Datagram(r) : r \in Requests} \cup {Garbage}

\* dhcppkt::parse
parse(buf) ==
    IF buf.wellformed THEN [ok |-> TRUE, req |-> buf.req]
    ELSE [ok |-> FALSE, req |-> NoRequest]

\* pool::Lease, as returned by Pools::allocate_address("default")
Leases == { [ip |-> "192.0.2.50", lease |-> 3600], [ip |-> "192.0.2.51", lease |-> 600] }

\* Result<dhcppkt::DHCP, DhcpError>
NoPkt == [op |-> 0]
DhcpOk(r) == [ok |-> TRUE, reply |-> r, error |-> ""]
DhcpErr(e) == [ok |-> FALSE, reply |-> NoPkt, error |-> e]
NoResult == [ok |-> FALSE, reply |-> NoPkt, error |-> "none"]

\* Offer with the serveridentifier left out
Offer_NoServerId(req, addr, lease) ==
    [op |-> OP_BOOTREPLY, htype |-> HWTYPE_ETHERNET, hlen |-> 6, hops |-> 0,
     xid |-> req.xid, secs |-> 0, flags |-> req.flags, ciaddr |-> UNSPECIFIED,
     yiaddr |-> lease.ip, siaddr |-> UNSPECIFIED, giaddr |-> req.giaddr,
     chaddr |-> req.chaddr, sname |-> << >>, file |-> << >>,
     options |-> [messagetype |-> DHCPOFFER, hostname |-> req.options.hostname,
                  parameterlist |-> None, leasetime |-> None,
                  serveridentifier |-> None,
                  clientidentifier |-> req.options.clientidentifier]]

\* mod.rs:78-102: the OFFER built by handle_discover
Offer(req, addr, lease) ==
    [op |-> OP_BOOTREPLY, htype |-> HWTYPE_ETHERNET, hlen |-> 6, hops |-> 0,
     xid |-> req.xid, secs |-> 0, flags |-> req.flags, ciaddr |-> UNSPECIFIED,
     yiaddr |-> lease.ip, siaddr |-> UNSPECIFIED, giaddr |-> req.giaddr,
     chaddr |-> req.chaddr, sname |-> << >>, file |-> << >>,
     options |-> [messagetype |-> DHCPOFFER, hostname |-> req.options.hostname,
                  parameterlist |-> None, leasetime |-> None,
                  serveridentifier |-> Some(addr.ip),
                  clientidentifier |-> req.options.clientidentifier]]

\* Ack with giaddr cleared like siaddr
Ack_NoRelay(req, lease) ==
    [op |-> OP_BOOTREPLY, htype |-> HWTYPE_ETHERNET, hlen |-> 6, hops |-> 0,
     xid |-> req.xid, secs |-> 0, flags |-> req.flags, ciaddr |-> req.ciaddr,
     yiaddr |-> lease.ip, siaddr |-> UNSPECIFIED, giaddr |-> UNSPECIFIED,
     chaddr |-> req.chaddr, sname |-> << >>, file |-> << >>,
     options |-> [messagetype |-> DHCPACK, hostname |-> req.options.hostname,
                  parameterlist |-> None, leasetime |-> Some(lease.lease),
                  serveridentifier |-> req.options.serveridentifier,
                  clientidentifier |-> req.options.clientidentifier]]

\* mod.rs:125-149: the ACK built by handle_request
Ack(req, lease) ==
    [op |-> OP_BOOTREPLY, htype |-> HWTYPE_ETHERNET, hlen |-> 6, hops |-> 0,
     xid |-> req.xid, secs |-> 0, flags |-> req.flags, ciaddr |-> req.ciaddr,
     yiaddr |-> lease.ip, siaddr |-> UNSPECIFIED, giaddr |-> req.giaddr,
     chaddr |-> req.chaddr, sname |-> << >>, file |-> << >>,
     options |-> [messagetype |-> DHCPACK, hostname |-> req.options.hostname,
                  parameterlist |-> None, leasetime |-> Some(lease.lease),
                  serveridentifier |-> req.options.serveridentifier,
                  clientidentifier |-> req.options.clientidentifier]]

\* IsOtherServer with the membership test inverted
IsOtherServer_Inverted(req, ids) ==
    /\ req.options.serveridentifier # None
    /\ req.options.serveridentifier[1] \in ids

\* IsOtherServer with the check against the snapshot left out
IsOtherServer_Skipped(req, ids) == FALSE

\* mod.rs:118-122: TRUE when handle_request turns the packet away
IsOtherServer(req, ids) ==
    /\ req.options.serveridentifier # None
    /\ req.options.serveridentifier[1] \notin ids

\* mod.rs:157-175, 76, 105-109, 118-123, 152-154: what handle_pkt returns without
\* calling allocate_address; NoResult when it goes on to allocate
HandleBeforeAllocate(buf, from, ids) ==
    LET dhcp == parse(buf)
        req == dhcp.req
        mt == req.options.messagetype
    IN  IF ~dhcp.ok THEN DhcpErr("ParseError")
        ELSE IF mt = DHCPDISCOVER
             THEN IF from.v4 THEN NoResult ELSE DhcpErr("InternalError")
        ELSE IF mt = DHCPREQUEST
             THEN IF IsOtherServer(req, ids) THEN DhcpErr("OtherServer")
                  ELSE IF from.v4 THEN NoResult ELSE DhcpErr("OtherServer")
        ELSE DhcpErr("UnknownMessageType")

\* mod.rs:77-104, 124-151: the result once allocate_address has returned
HandleAfterAllocate(buf, from, lease) ==
    LET req == parse(buf).req IN
    IF lease = None THEN DhcpErr("NoLeasesAvailable")
    ELSE IF req.options.messagetype = DHCPDISCOVER
         THEN DhcpOk(Offer(req, from, lease[1]))
         ELSE DhcpOk(Ack(req, lease[1]))

\* holders of the DHCP mutexes
TaskHolder(t) == <<"task", t>>

\* mod.rs:252-268
InitDhcp ==
    /\ pool_owner = NoHolder
    /\ ids_owner = NoHolder
    /\ serverids = {}
    /\ dpc = [t \in Packets |-> "idle"]
    /\ dbuf = [t \in Packets |-> Garbage]
    /\ dfrom = [t \in Packets |-> V4("")]
    /\ dsnap = [t \in Packets |-> {}]
    /\ dres = [t \in Packets |-> NoResult]
    /\ dalloc = [t \in Packets |-> FALSE]
    /\ sent = {}

\* mod.rs:270-288: a datagram is received and its task spawned
DhcpRecv(t, buf, from) ==
    /\ dpc[t] = "idle"
    /\ \A u \in Packets : u < t => dpc[u] # "idle"
    /\ dbuf' = [dbuf EXCEPT ![t] = buf]
    /\ dfrom' = [dfrom EXCEPT ![t] = from]
    /\ dpc' = [dpc EXCEPT ![t] = "lockpool"]
    /\ UNCHANGED <<pool_owner, ids_owner, serverids, dsnap, dres, dalloc, sent>>
    /\ UNCHANGED dnsvars

\* PoolFree for a lock that never waits
PoolFree_NoWait == TRUE

\* mod.rs:207: the Pools mutex can be taken
PoolFree == pool_owner = NoHolder

\* mod.rs:207-213: pools.lock().await, then the check of `from`, which panics
\* (dropping the guard) when it is not an IPv4 address
DhcpLockPool(t) ==
    /\ dpc[t] = "lockpool"
    /\ PoolFree
    /\ IF dfrom[t].v4
       THEN /\ pool_owner' = TaskHolder(t)
            /\ dpc' = [dpc EXCEPT ![t] = "lockids"]
       ELSE /\ pool_owner' = NoHolder
            /\ dpc' = [dpc EXCEPT ![t] = "panicked"]
    /\ UNCHANGED <<ids_owner, serverids, dbuf, dfrom, dsnap, dres, dalloc, sent>>
    /\ UNCHANGED dnsvars

\* serverids.lock().await, at mod.rs:214 (the guard is a temporary of the match
\* scrutinee: it lives to the end of the match) and at mod.rs:217 (the guard is
\* dropped at the end of the insert statement)
DhcpLockIds(t) ==
    /\ ids_owner = NoHolder
    /\ \/ /\ dpc[t] = "lockids"
          /\ ids_owner' = TaskHolder(t)
          /\ dsnap' = [dsnap EXCEPT ![t] = serverids]
          /\ dpc' = [dpc EXCEPT ![t] = "handle"]
          /\ UNCHANGED serverids
       \/ /\ dpc[t] = "insert"
          /\ serverids' = serverids \cup {dres[t].reply.options.serveridentifier[1]}
          /\ ids_owner' = NoHolder
          /\ dpc' = [dpc EXCEPT ![t] = "send"]
          /\ UNCHANGED dsnap
    /\ UNCHANGED <<pool_owner, dbuf, dfrom, dres, dalloc, sent>>
    /\ UNCHANGED dnsvars

\* AfterHandle with the Err arm taken for a reply to send
AfterHandle_SendErrors(res) ==
    IF ~res.ok THEN "send"
    ELSE IF res.reply.options.serveridentifier # None THEN "insert" ELSE "send"

\* the position of a task whose handle_pkt has returned res (mod.rs:215-218, 234)
AfterHandle(res) ==
    IF ~res.ok THEN "err"
    ELSE IF res.reply.options.serveridentifier # None THEN "insert" ELSE "send"

\* mod.rs:157-175 up to the call of allocate_address; the Pools guard, moved into
\* handle_pkt, is dropped when it returns
DhcpHandlePkt(t) ==
    /\ dpc[t] = "handle"
    /\ LET res == HandleBeforeAllocate(dbuf[t], dfrom[t], dsnap[t]) IN
       IF res = NoResult
       THEN /\ dpc' = [dpc EXCEPT ![t] = "allocate"]
            /\ dalloc' = [dalloc EXCEPT ![t] = TRUE]
            /\ UNCHANGED <<pool_owner, dres>>
       ELSE /\ dres' = [dres EXCEPT ![t] = res]
            /\ pool_owner' = NoHolder
            /\ dpc' = [dpc EXCEPT ![t] = AfterHandle(res)]
            /\ UNCHANGED dalloc
    /\ UNCHANGED <<ids_owner, serverids, dbuf, dfrom, dsnap, sent>>
    /\ UNCHANGED dnsvars

\* mod.rs:77, 124: pools.allocate_address("default") returns; the reply is built
\* and the Pools guard dropped
DhcpAllocate(t, lease) ==
    /\ dpc[t] = "allocate"
    /\ LET res == HandleAfterAllocate(dbuf[t], dfrom[t], lease) IN
       /\ dres' = [dres EXCEPT ![t] = res]
       /\ dpc' = [dpc EXCEPT ![t] = AfterHandle(res)]
    /\ pool_owner' = NoHolder
    /\ UNCHANGED <<ids_owner, serverids, dbuf, dfrom, dsnap, dalloc, sent>>
    /\ UNCHANGED dnsvars

\* the ServerIds guard taken at mod.rs:214 is dropped at the end of the match
ReleaseIds(t) == IF ids_owner = TaskHolder(t) THEN NoHolder ELSE ids_owner

\* mod.rs:219-232: the reply is serialised and handed to send_raw
DhcpSend(t) ==
    /\ dpc[t] = "send"
    /\ sent' = sent \cup {[task |-> t, reply |-> dres[t].reply]}
    /\ ids_owner' = ReleaseIds(t)
    /\ dpc' = [dpc EXCEPT ![t] = "done"]
    /\ UNCHANGED <<pool_owner, serverids, dbuf, dfrom, dsnap, dres, dalloc>>
    /\ UNCHANGED dnsvars

\* mod.rs:234: the error is printed and the packet dropped
DhcpDrop(t) ==
    /\ dpc[t] = "err"
    /\ ids_owner' = ReleaseIds(t)
    /\ dpc' = [dpc EXCEPT ![t] = "done"]
    /\ UNCHANGED <<pool_owner, serverids, dbuf, dfrom, dsnap, dres, dalloc, sent>>
    /\ UNCHANGED dnsvars

DhcpTask(t) ==
    \/ DhcpLockPool(t)
    \/ DhcpLockIds(t)
    \/ DhcpHandlePkt(t)
    \/ \E lease \in {Some(l) : l \in Leases} \cup {None} : DhcpAllocate(t, lease)
    \/ DhcpSend(t)
    \/ DhcpDrop(t)

NextDhcp ==
    \/ \E t \in Packets, buf \in Buffers, from \in Froms : DhcpRecv(t, buf, from)
    \/ \E t \in Packets : DhcpLockPool(t)
    \/ \E t \in Packets : DhcpLockIds(t)
    \/ \E t \in Packets : DhcpHandlePkt(t)
    \/ \E t \in Packets, lease \in {Some(l) : l \in Leases} \cup {None} : DhcpAllocate(t, lease)
    \/ \E t \in Packets : DhcpSend(t)
    \/ \E t \in Packets : DhcpDrop(t)

Init == InitDns /\ InitDhcp

\* the DNS cache
Spec == Init /\ [][NextDns]_vars

\* the DHCP pipeline
SpecDhcp == Init /\ [][NextDhcp]_vars

\* the DHCP pipeline under the scheduling of the runtime: a task that can take
\* a step is eventually polled
SpecDhcpFair == SpecDhcp /\ \A t \in Packets : WF_vars(DhcpTask(t))

(***************************************************************************)
(* Steps of the DNS cache, as seen from outside.                           *)
(***************************************************************************)
SweepStep == epc = "sweep" /\ epc' = "clamp"
LookupStep(q) == qpc[q] = "lookup" /\ qpc'[q] # "lookup"
UpstreamStep(q) == qpc[q] = "upstream" /\ qpc'[q] # "upstream"
InsertStep(q) == qpc[q] = "insert" /\ qpc'[q] = "gauge"
GaugeStep(q) == qpc[q] = "gauge" /\ qpc'[q] = "done"

\* q is an IN-class call that went to OutQuery and got an answer
WentUpstream(q) == qmsg[q].qclass = CLASS_IN /\ qup[q] # NoTime

\* b asks what a asked, and was called after a had returned
Follows(a, b) ==
    /\ a # b
    /\ a \in qbefore[b]
    /\ qmsg[a].qclass = CLASS_IN
    /\ qmsg[b] = qmsg[a]

\* a and b apart, the calls for a's key that went upstream had returned before a
\* was made
NoOtherUpstream(a, b) ==
    \A c \in Queries \ {a, b} :
        (qmsg[c].key = qmsg[a].key /\ WentUpstream(c)) => c \in qbefore[a]

(***************************************************************************)
(* C1: immediately after a sweep of the expiry task at time t the cache    *)
(* holds no entry whose deadline birth + lifetime is <= t.                 *)
(***************************************************************************)
C1_NoExpiredAfterSweep ==
    [][SweepStep => \A k \in DOMAIN cache' : cache'[k].birth + cache'[k].lifetime > now]_vars

(***************************************************************************)
(* C2: once a call for an IN-class key has got Timeout from OutQuery at    *)
(* t0, every later call for the key that looks the key up less than 8      *)
(* seconds after t0 is answered with the cached Timeout and makes no       *)
(* OutQuery call, whatever the expiry task does in between.                *)
(***************************************************************************)
C2_Debounce ==
    [][\A a, b \in Queries :
          ( /\ LookupStep(b)
            /\ Follows(a, b)
            /\ WentUpstream(a)
            /\ qout[a] = Err("Timeout", "")
            /\ now < qup[a] + 8
            /\ NoOtherUpstream(a, b) )
          => /\ qhit'[b]
             /\ qpc'[b] = "done"
             /\ qret'[b] = Err("Timeout", "")]_vars

\* the packet of t is a REQUEST naming a server that is not in ServerIds now
ForeignRequest(t) ==
    /\ dbuf[t].wellformed
    /\ dbuf[t].req.options.messagetype = DHCPREQUEST
    /\ dbuf[t].req.options.serveridentifier # None
    /\ dbuf[t].req.options.serveridentifier[1] \notin serverids

(***************************************************************************)
(* C3: a REQUEST whose serveridentifier is not in the shared ServerIds set *)
(* when handle_pkt decides yields OtherServer, and allocate_address is not *)
(* called for the packet.                                                  *)
(***************************************************************************)
C3_ForeignRequestRefused ==
    [][\A t \in Packets :
          (dpc[t] = "handle" /\ dpc'[t] # "handle" /\ ForeignRequest(t))
          => /\ dres'[t] = DhcpErr("OtherServer")
             /\ dpc'[t] = "err"
             /\ ~dalloc'[t]]_vars

C3_Witness ==
    \E t \in Packets :
        /\ dpc[t] = "done"
        /\ ForeignRequest(t)
        /\ dres[t] = DhcpErr("OtherServer")
        /\ ~dalloc[t]
        /\ \E u \in Packets : u # t /\ dalloc[u]

(***************************************************************************)
(* C4: at most one task at a time is inside allocate_address, and it holds *)
(* the Pools mutex.                                                        *)
(***************************************************************************)
C4_AllocationsSerialised ==
    /\ Cardinality({t \in Packets : dpc[t] = "allocate"}) <= 1
    /\ \A t \in Packets : dpc[t] = "allocate" => pool_owner = TaskHolder(t)

C4_Witness ==
    \E t, u \in Packets :
        /\ dpc[t] = "allocate"
        /\ dpc[u] = "lockpool"
        /\ dbuf[u].wellformed
        /\ dbuf[u].req.options.messagetype \in {DHCPDISCOVER, DHCPREQUEST}

(***************************************************************************)
(* C5: a transaction whose handler produced a reply carrying a             *)
(* serveridentifier inserts it into ServerIds and then hands the reply to  *)
(* the raw socket; no reply with a serveridentifier is handed to the       *)
(* socket before the serveridentifier is in the set.                       *)
(***************************************************************************)
C5_InsertBeforeSend ==
    /\ [](\A f \in sent :
            f.reply.options.serveridentifier # None
                => f.reply.options.serveridentifier[1] \in serverids)
    /\ \A t \in Packets :
          (dpc[t] = "insert")
              ~> (/\ dres[t].ok
                  /\ dres[t].reply.options.serveridentifier # None
                  /\ dres[t].reply.options.serveridentifier[1] \in serverids
                  /\ \E f \in sent : f.task = t)

(***************************************************************************)
(* C6: a reply is served from the cache only when birth + lifetime > now   *)
(* at the lookup; an entry found at or after its deadline is counted       *)
(* EXPIRED and the query goes upstream; an entry of lifetime 0 is never    *)
(* served.                                                                 *)
(***************************************************************************)
C6_NoStaleHit ==
    [][\A q \in Queries :
          LookupStep(q) =>
            LET ck == qmsg[q].key IN
            /\ qhit'[q] =>
                  (ck \in DOMAIN cache /\ cache[ck].birth + cache[ck].lifetime > now)
            /\ (ck \in DOMAIN cache /\ cache[ck].birth + cache[ck].lifetime <= now) =>
                  /\ ~qhit'[q]
                  /\ qpc'[q] = "upstream"
                  /\ counters'["EXPIRED"] = counters["EXPIRED"] + 1
                  /\ counters'["HIT"] = counters["HIT"]
            /\ (ck \in DOMAIN cache /\ cache[ck].lifetime = 0) => ~qhit'[q]]_vars

C6_Witness ==
    \E q \in Queries :
        /\ qhit[q]
        /\ counters["HIT"] = 1
        /\ qret[q] = Ok(<<64, 34>>)

(***************************************************************************)
(* C7: the dns_cache_size gauge equals the number of entries of the cache  *)
(* after handle_query has inserted and set it, and after every sweep of    *)
(* the expiry task.                                                        *)
(***************************************************************************)
C7_GaugeIsSize ==
    [][(SweepStep \/ \E q \in Queries : GaugeStep(q))
          => gauge' = Cardinality(DOMAIN cache')]_vars

(***************************************************************************)
(* C8: when a call for an IN-class key has completed with a successful     *)
(* upstream reply of expiry L > 0 got at t0, a later identical call that   *)
(* looks the key up before t0 + L (so before birth + L, the entry being    *)
(* born at or after t0) is answered from the cache with the same reply,    *)
(* its TTLs decremented, whatever the expiry task does.                    *)
(***************************************************************************)
C8_CacheIdempotence ==
    [][\A a, b \in Queries :
          ( /\ LookupStep(b)
            /\ Follows(a, b)
            /\ WentUpstream(a)
            /\ qout[a].kind = "Ok"
            /\ get_expiry(qout[a]) > 0
            /\ now < qup[a] + get_expiry(qout[a])
            /\ NoOtherUpstream(a, b) )
          => /\ qhit'[b]
             /\ qpc'[b] = "done"
             /\ \E dec \in 0..(now - qup[a]) :
                   qret'[b] = clone_with_ttl_decrement(qout[a], dec)]_vars

\* the transport failures of OutQuery
TransportErrorKinds ==
    {"Timeout", "FailedToSend", "FailedToRecv", "TcpConnectionError", "ParseError"}

(***************************************************************************)
(* C9: when OutQuery fails on a miss with Timeout, FailedToSend,           *)
(* FailedToRecv, TcpConnectionError or ParseError, handle_query inserts    *)
(* under the key a negative entry of lifetime 8 s born at the insertion,   *)
(* and returns that error.                                                 *)
(***************************************************************************)
C9_NegativeEntry ==
    [][\A q \in Queries :
          /\ (UpstreamStep(q) /\ qout'[q].kind \in TransportErrorKinds)
                => qpc'[q] = "wrlock"
          /\ (InsertStep(q) /\ qout[q].kind \in TransportErrorKinds)
                => /\ qmsg[q].key \in DOMAIN cache'
                   /\ cache'[qmsg[q].key].lifetime = 8
                   /\ cache'[qmsg[q].key].birth = now
                   /\ cache'[qmsg[q].key].reply.kind \in
                         {"Timeout", "FailedToSendMsg", "FailedToRecvMsg",
                          "TcpConnectionError", "ParseError"}
                   /\ cache'[qmsg[q].key].reply.ttls = << >>
          /\ (GaugeStep(q) /\ qout[q].kind \in TransportErrorKinds)
                => qret'[q] = qout[q]]_vars

C9_Witness ==
    \E q \in Queries :
        /\ qpc[q] = "done"
        /\ qout[q].kind = "FailedToSend"
        /\ qret[q] = qout[q]
        /\ qmsg[q].key \in DOMAIN cache
        /\ cache[qmsg[q].key].reply = Err("FailedToSendMsg", "Network is unreachable")
        /\ cache[qmsg[q].key].lifetime = 8

\* the other errors of OutQuery
UncachedErrorKinds ==
    {"NotAuthoritative", "InternalError", "FailedToSendMsg", "FailedToRecvMsg"}

(***************************************************************************)
(* C10: when OutQuery fails on a miss with NotAuthoritative,               *)
(* InternalError, FailedToSendMsg or FailedToRecvMsg, handle_query returns *)
(* the error and leaves the cache and the gauge as they were; a following  *)
(* identical call goes upstream again.                                     *)
(***************************************************************************)
C10_ErrorNotCached ==
    [][/\ \A q \in Queries :
            (UpstreamStep(q) /\ qout'[q].kind \in UncachedErrorKinds)
                => /\ cache' = cache
                   /\ gauge' = gauge
                   /\ qpc'[q] = "done"
                   /\ qret'[q] = qout'[q]
       /\ \A a, b \in Queries :
            ( /\ LookupStep(b)
              /\ Follows(a, b)
              /\ WentUpstream(a)
              /\ qout[a].kind \in UncachedErrorKinds
              /\ NoOtherUpstream(a, b) )
            => qpc'[b] = "upstream" /\ ~qhit'[b]]_vars

C10_Witness ==
    \E a, b \in Queries :
        /\ Follows(a, b)
        /\ WentUpstream(a)
        /\ qout[a].kind = "NotAuthoritative"
        /\ qret[a] = qout[a]
        /\ qpc[b] = "upstream"
        /\ cache = << >>

(***************************************************************************)
(* C11: a call whose qclass is not IN takes no lock of the cache, leaves   *)
(* the cache and the gauge as they are, increments the UNCACHABLE_CLASS    *)
(* counter and no other, and returns what one OutQuery call returned, also *)
(* when a live IN entry for the same (qname, qtype) is in the cache.       *)
(***************************************************************************)
C11_NonInBypass ==
    [][\A q \in Queries :
          /\ (qpc[q] = "idle" /\ qpc'[q] # "idle" /\ qmsg'[q].qclass # CLASS_IN)
                => /\ qpc'[q] = "bypass"
                   /\ counters' = [counters EXCEPT !["UNCACHABLE_CLASS"] = @ + 1]
                   /\ qout'[q] = NoReply
                   /\ <<cache, gauge, readers, writer>>' = <<cache, gauge, readers, writer>>
          /\ (qpc[q] # "idle" /\ qmsg[q].qclass # CLASS_IN /\ qpc'[q] # qpc[q])
                => /\ qpc[q] = "bypass"
                   /\ qpc'[q] = "done"
                   /\ qout[q] = NoReply
                   /\ qout'[q] \in OutResults
                   /\ qret'[q] = qout'[q]
                   /\ ~qhit'[q]
                   /\ counters' = counters
                   /\ <<cache, gauge, readers, writer>>' = <<cache, gauge, readers, writer>>]_vars

C11_Witness ==
    \E q \in Queries :
        /\ qpc[q] = "done"
        /\ qmsg[q].qclass = CLASS_CH
        /\ qret[q] = Ok(<<70, 40>>)
        /\ counters["UNCACHABLE_CLASS"] = 1
        /\ counters["HIT"] = 0
        /\ qmsg[q].key \in DOMAIN cache
        /\ IsFresh(cache[qmsg[q].key], now)

\* the result of handle_pkt for the packet of t is a reply of this message type
Produced(t, mt) == dres[t].ok /\ dres[t].reply.options.messagetype = mt

(***************************************************************************)
(* C12: every reply produced by the handler, OFFER or ACK, has op = 2,     *)
(* htype = 1, hlen = 6, and the xid, flags, chaddr and giaddr of the       *)
(* request it answers; so has every frame handed to the raw socket.        *)
(***************************************************************************)
C12_ReplyHeader ==
    /\ \A t \in Packets :
          dres[t].ok =>
            LET r == dres[t].reply
                req == dbuf[t].req
            IN  /\ dbuf[t].wellformed
                /\ r.options.messagetype \in {DHCPOFFER, DHCPACK}
                /\ r.op = 2 /\ r.htype = 1 /\ r.hlen = 6
                /\ r.xid = req.xid /\ r.flags = req.flags
                /\ r.chaddr = req.chaddr /\ r.giaddr = req.giaddr
    /\ \A f \in sent : dres[f.task].ok /\ f.reply = dres[f.task].reply

C12_Witness ==
    \E t, u \in Packets :
        /\ Produced(t, DHCPACK)
        /\ dres[t].reply.giaddr = "192.0.2.254"
        /\ \E f \in sent : f.task = t
        /\ Produced(u, DHCPOFFER)
        /\ dres[u].reply.xid = 1
        /\ dres[u].reply.flags = 32768

(***************************************************************************)
(* C13: every ACK produced by the handler carries a leasetime that is      *)
(* present, positive and the duration of the lease the pool returned;      *)
(* every OFFER carries a serveridentifier, the IPv4 address of `from`.     *)
(***************************************************************************)
C13_AckLeasetimeOfferServerId ==
    \A t \in Packets :
        /\ Produced(t, DHCPACK) =>
              /\ dres[t].reply.options.leasetime # None
              /\ dres[t].reply.options.leasetime[1] > 0
              /\ \E l \in Leases : /\ dres[t].reply.yiaddr = l.ip
                                   /\ dres[t].reply.options.leasetime = Some(l.lease)
        /\ Produced(t, DHCPOFFER) =>
              /\ dres[t].reply.options.serveridentifier # None
              /\ dfrom[t].v4
              /\ dres[t].reply.options.serveridentifier = Some(dfrom[t].ip)

C13_Witness ==
    \E t, u \in Packets :
        /\ Produced(t, DHCPACK)
        /\ dres[t].reply.options.leasetime = Some(600)
        /\ Produced(u, DHCPOFFER)
        /\ dres[u].reply.options.serveridentifier = Some("192.0.2.1")

\* handling the packet of t has ended in a DhcpError, or its task has panicked
Failed(t) ==
    \/ dpc[t] = "panicked"
    \/ dpc[t] \in {"err", "done"} /\ ~dres[t].ok

\* the step is one of the task of t
TaskStep(t) == dpc'[t] # dpc[t]

(***************************************************************************)
(* C14: when handling a packet ends in a DhcpError, or its task panics, no *)
(* frame is handed to the raw socket for the packet, the task does not     *)
(* change ServerIds, it holds the Pools mutex no longer, it ends having    *)
(* released the ServerIds mutex too, and the loop can receive the next     *)
(* packet, whose task is not kept from the Pools mutex by the failed one.  *)
(***************************************************************************)
C14_ErrorsAreDropped ==
    /\ [](\A t \in Packets :
            Failed(t) =>
              /\ \A f \in sent : f.task # t
              /\ pool_owner # TaskHolder(t)
              /\ dpc[t] # "err" => ids_owner # TaskHolder(t)
              /\ dres[t].error \in {"none", "ParseError", "UnknownMessageType",
                                    "OtherServer", "NoLeasesAvailable", "InternalError"}
              /\ \A u \in Packets :
                    (dpc[u] = "idle" /\ \A w \in Packets : w < u => dpc[w] # "idle")
                        => ENABLED DhcpRecv(u, Garbage, V4("192.0.2.1")))
    /\ [][\A t \in Packets :
            (TaskStep(t) /\ (Failed(t) \/ Failed(t)'))
                => serverids' = serverids /\ sent' = sent]_vars
    /\ \A t \in Packets : (dpc[t] = "err") ~> (dpc[t] = "done")
    /\ \A t, u \in Packets :
          (Failed(t) /\ dpc[t] # "err" /\ dpc[u] = "lockpool")
              ~> (dpc[u] # "lockpool" \/ pool_owner # NoHolder)

C14_Witness ==
    \E t, u \in Packets :
        /\ t < u
        /\ dpc[t] = "done"
        /\ dres[t] = DhcpErr("NoLeasesAvailable")
        /\ dpc[u] = "done"
        /\ Produced(u, DHCPACK)
        /\ \E f \in sent : f.task = u

(***************************************************************************)
(* C15: a hit served at time now from an entry born at b that holds a      *)
(* successful reply returns a packet with as many RRs, each TTL being      *)
(* max(original TTL - (now - b), 0), the elapsed seconds taken as a u32;   *)
(* the entry in the cache keeps its TTLs.                                  *)
(***************************************************************************)
C15_HitTtlDecrement ==
    [][\A q \in Queries :
          (LookupStep(q) /\ qhit'[q] /\ cache[qmsg[q].key].reply.kind = "Ok")
            => LET entry == cache[qmsg[q].key]
                   elapsed == now - entry.birth
               IN  /\ elapsed >= 0
                   /\ AsU32(elapsed) = elapsed
                   /\ qret'[q].kind = "Ok"
                   /\ Len(qret'[q].ttls) = Len(entry.reply.ttls)
                   /\ \A i \in 1..Len(entry.reply.ttls) :
                         qret'[q].ttls[i] = Max(entry.reply.ttls[i] - elapsed, 0)
                   /\ cache' = cache]_vars

C15_Witness ==
    \E q \in Queries :
        /\ qhit[q]
        /\ qret[q] = Ok(<<64, 34>>)
        /\ qmsg[q].key \in DOMAIN cache
        /\ cache[qmsg[q].key] = CacheValue(Ok(<<70, 40>>), 0, 40)

(***************************************************************************)
(* C16: a sweep of the expiry task at time now leaves every entry whose    *)
(* deadline birth + lifetime is after now in the cache, as it was.         *)
(***************************************************************************)
C16_SweepKeepsLive ==
    [][SweepStep =>
          \A k \in DOMAIN cache :
              cache[k].birth + cache[k].lifetime > now
                  => (k \in DOMAIN cache' /\ cache'[k] = cache[k])]_vars

(***************************************************************************)
(* C17: a task holds the Pools mutex from before its packet is parsed,     *)
(* through the allocation and the insert into ServerIds, until its reply   *)
(* has been handed to send_raw.                                            *)
(***************************************************************************)
C17_PoolHeldThroughSend ==
    \A t \in Packets :
        dpc[t] \in {"lockids", "handle", "allocate", "insert", "send"}
            => pool_owner = TaskHolder(t)

\* a and b are calls for the same IN-class key
SameKey(a, b) ==
    /\ a # b
    /\ qmsg[a].qclass = CLASS_IN
    /\ qmsg[b] = qmsg[a]

(***************************************************************************)
(* C18: a lookup that does not find the key goes to OutQuery whatever the  *)
(* other calls are doing, also when another call for the key is already    *)
(* waiting for OutQuery or for the write lock; every insert succeeds and   *)
(* leaves under the key the entry of the call that inserts, the other keys *)
(* being as they were: after two such calls the cache holds one entry for  *)
(* the key, the one written last.                                          *)
(***************************************************************************)
C18_NoCoalescing ==
    [][\A q \in Queries :
          /\ (LookupStep(q) /\ qmsg[q].key \notin DOMAIN cache)
                => /\ qpc'[q] = "upstream"
                   /\ counters'["MISS"] = counters["MISS"] + 1
          /\ (UpstreamStep(q) /\ IsCached(qout'[q])) => qpc'[q] = "wrlock"
          /\ InsertStep(q)
                => /\ DOMAIN cache' = DOMAIN cache \cup {qmsg[q].key}
                   /\ cache'[qmsg[q].key].reply = clone_out_reply(qout[q])
                   /\ cache'[qmsg[q].key].birth = now
                   /\ \A k \in DOMAIN cache \ {qmsg[q].key} : cache'[k] = cache[k]]_vars

\* the expiry task has not run, both calls missed, and the second insert has
\* replaced the entry of the first
C18_Witness ==
    \E a, b \in Queries :
        /\ SameKey(a, b)
        /\ epc = "start" /\ next_cycle = 0
        /\ counters["MISS"] = 2
        /\ qpc[a] = "done" /\ qpc[b] = "gauge"
        /\ qout[a] = Ok(<<70, 40>>)
        /\ qout[b] = Err("Timeout", "")
        /\ DOMAIN cache = {qmsg[a].key}
        /\ cache[qmsg[a].key].reply = qout[b]

\* two calls for one key are waiting for OutQuery
C18_TwoInFlight ==
    \E a, b \in Queries :
        SameKey(a, b) /\ qpc[a] = "upstream" /\ qpc[b] = "upstream"

\* no call and no sweep is inside a section that holds the RwLock
NobodyInside ==
    /\ \A q \in Queries : qpc[q] \notin {"lookup", "insert"}
    /\ epc # "sweep"

(***************************************************************************)
(* C19: a call that waits for OutQuery holds neither a read nor the write  *)
(* guard of the cache: the guards are held only for the lookup, the insert *)
(* and the sweep.  Whatever the number of calls waiting for OutQuery, the  *)
(* expiry task and the other calls can take the lock when nobody is inside *)
(* one of those sections.                                                  *)
(***************************************************************************)
C19_NoLockAcrossUpstream ==
    /\ \A q \in Queries :
          /\ qpc[q] \in {"upstream", "bypass", "wrlock", "rdlock", "gauge", "done", "idle"}
                => (q \notin readers /\ writer # QueryHolder(q))
          /\ q \in readers => qpc[q] = "lookup"
          /\ writer = QueryHolder(q) => qpc[q] = "insert"
    /\ writer = ExpireHolder => epc = "sweep"
    /\ NobodyInside =>
          /\ epc = "wrlock" => ENABLED ExpireWriteLock
          /\ \A p \in Queries :
                /\ qpc[p] = "rdlock" => ENABLED QueryReadLock(p)
                /\ qpc[p] = "wrlock" => ENABLED QueryWriteLock(p)

\* the expiry task sweeps, and another call waits for the write lock, while a
\* call waits for OutQuery
C19_Witness ==
    \E a, b \in Queries :
        /\ qpc[a] = "upstream"
        /\ qpc[b] = "wrlock"
        /\ epc = "sweep"
        /\ writer = ExpireHolder

\* the step of the expiry task that clamps next_cycle
ClampStep == epc = "clamp" /\ epc' = "sleep"

\* the deadlines of the entries of c that are still live at t: those that are
\* not before t
LiveDeadlines(c, t) ==
    {c[k].birth + c[k].lifetime : k \in {kk \in DOMAIN c : c[kk].birth + c[kk].lifetime >= t}}

\* the earliest of them, or the limit when no entry is live
EarliestLive(limit, c, t) ==
    IF LiveDeadlines(c, t) = {} THEN limit ELSE Min(limit, SetMin(LiveDeadlines(c, t)))

(***************************************************************************)
(* C20: a cycle of the expiry task sleeps until max(now + 30 s, min(now +  *)
(* 30 min, the earliest deadline among the entries still live at the       *)
(* sweep)): the value left by the sweep, once clamped, is that one, the    *)
(* deadlines of entries already expired not counting; the clamp raises it  *)
(* to now + 30 s at least, and it is never after now + 30 min.             *)
(***************************************************************************)
C20_NextCycle ==
    [][/\ SweepStep =>
            Max(next_cycle', now + 30) = Max(now + 30, EarliestLive(next_cycle, cache, now))
       /\ ClampStep =>
            /\ next_cycle' = Max(next_cycle, now + 30)
            /\ next_cycle' >= now + 30
            /\ next_cycle' <= now + 1800]_vars

\* the task of t waits for a mutex
Waiting(t) == dpc[t] \in {"lockpool", "lockids", "insert"}

(***************************************************************************)
(* C21: the DHCP pipeline cannot deadlock.  A task asks for the ServerIds  *)
(* mutex while it holds the Pools mutex (the snapshot) or while it holds   *)
(* no lock (the insert), and never for the Pools mutex while it holds the  *)
(* ServerIds mutex; every task that waits for a mutex eventually gets it,  *)
(* and a mutex that is held is eventually free again.                      *)
(***************************************************************************)
C21_NoDeadlock ==
    /\ [](\A t \in Packets :
            /\ dpc[t] = "lockids" => (pool_owner = TaskHolder(t) /\ ids_owner # TaskHolder(t))
            /\ dpc[t] = "insert" => (pool_owner # TaskHolder(t) /\ ids_owner # TaskHolder(t))
            /\ dpc[t] = "lockpool" => ids_owner # TaskHolder(t))
    /\ \A t \in Packets : Waiting(t) ~> ~Waiting(t)
    /\ (pool_owner # NoHolder) ~> (pool_owner = NoHolder)
    /\ (ids_owner # NoHolder) ~> (ids_owner = NoHolder)

\* C21 without its lock-order part: the progress of the tasks alone
C21_Progress ==
    /\ \A t \in Packets : Waiting(t) ~> ~Waiting(t)
    /\ (pool_owner # NoHolder) ~> (pool_owner = NoHolder)
    /\ (ids_owner # NoHolder) ~> (ids_owner = NoHolder)

\* the reply produced for the packet of t carries this serveridentifier
Identifies(t, ip) == dres[t].ok /\ dres[t].reply.options.serveridentifier = Some(ip)

====
